---- MODULE Spec2Model ----
(***************************************************************************)
(* egalitarian_division (src/main.py): the max-min fair fractional         *)
(* division of m divisible resources among n agents, posed as a linear     *)
(* program and handed to an external solver.                               *)
(*                                                                         *)
(* Numbers.  A fraction of a resource is a whole number of units of 1/D,   *)
(* D = Resolution(valuation_matrix): the entry allocations[i][j] = k       *)
(* stands for the fraction k/D, the value 1 for D units.  Utilities and    *)
(* min_utility are therefore scaled by D as well (units of value/D).       *)
(***************************************************************************)
EXTENDS Integers, Sequences, FiniteSets, TLC

VARIABLES
  valuation_matrix,  \* the argument: [n_agents, m_resources, val]
  pc,                \* "called" -> "built" -> "solved" -> "returned" | "raised"
  constraints,       \* the constraint list of the cp.Problem, once built
  solver_mode,       \* how the external solver behaved: exact, inexact, anomaly
  status,            \* problem.status
  allocations,       \* allocations.value
  min_utility,       \* min_utility.value
  result,            \* the dict the call returns
  error,             \* the exception the call raises
  prev               \* the caller's note of an earlier call (two-call runs only)

vars == <<valuation_matrix, pc, constraints, solver_mode, status, allocations,
          min_utility, result, error, prev>>

(***************************************************************************)
(* Bounds of the model.                                                    *)
(***************************************************************************)
\* Largest valuation of the enumerated inputs.
MaxVal == 2
\* Resolution of the enumerated inputs: fractions are multiples of 1/Grid.
Grid == 3
\* Slack, in scaled utility units, of a solution reported optimal_inaccurate.
Tol == 1

\* The smallest valuation of the enumerated inputs: negative, hence malformed.
MinVal == 0 - 1

\* The shapes (n_agents, m_resources) of the enumerated inputs, zero included.
Shapes == {<<0, 0>>, <<0, 1>>, <<1, 0>>, <<2, 0>>, <<0, 2>>,
           <<1, 1>>, <<1, 2>>, <<2, 1>>, <<2, 2>>, <<1, 3>>, <<3, 1>>}

Matrix(rows) ==
  [n_agents |-> Len(rows),
   m_resources |-> IF Len(rows) = 0 THEN 0 ELSE Len(rows[1]),
   val |-> rows]

\* The three matrices of the doctests.
first_division == Matrix(<< <<80, 19, 1>>, <<70, 1, 29>> >>)
jewelry == Matrix(<< <<90, 10>>, <<50, 50>>, <<10, 90>> >>)
unequal == Matrix(<< <<100, 100>>, <<1, 1>> >>)

DoctestMatrices == {first_division, jewelry, unequal}

EnumeratedMatrices ==
  UNION {
    {[n_agents |-> s[1], m_resources |-> s[2], val |-> v] :
       v \in [1..s[1] -> [1..s[2] -> MinVal..MaxVal]]} : s \in Shapes}

InputMatrices == EnumeratedMatrices \cup DoctestMatrices

\* A well-formed input: at least one agent and one resource, no negative entry.
ValidMatrix(V) ==
  /\ V.n_agents >= 1
  /\ V.m_resources >= 1
  /\ \A i \in 1..V.n_agents : \A j \in 1..V.m_resources : V.val[i][j] >= 0

(***************************************************************************)
(* The solver's grid.  For the doctest matrices it is the smallest one     *)
(* that holds an optimal vertex of the linear program (8/15 of the wood,   *)
(* 10/19 of the rings, 2/101 of the two resources), so that the optimum    *)
(* over the grid is the optimum over the reals.                            *)
(***************************************************************************)
Resolution(V) ==
  CASE V = first_division -> 15
    [] V = jewelry -> 19
    [] V = unequal -> 101
    [] OTHER -> Grid

RECURSIVE SumTo(_, _)
SumTo(f, k) == IF k = 0 THEN 0 ELSE f[k] + SumTo(f, k - 1)

Min(S) == CHOOSE x \in S : \A y \in S : x <= y
Max(S) == 0 - Min({0 - y : y \in S})

(***************************************************************************)
(* Lines 60-74: the program.                                               *)
(***************************************************************************)
NoConstraints == [lower |-> 0, upper |-> 0, column_sum |-> 0, floor_agents |-> {}]

\* The loop bound off by one, range(n_agents - 1): the last agent gets no
\* floor constraint.
FloorAgents_SkipsLast(n_agents) == 1..(n_agents - 1)

\* range(n_agents): the agents that get a constraint min_utility <= agent_utility.
FloorAgents(n_agents) == 1..n_agents

\* allocations >= 0, allocations <= 1, cp.sum(allocations, axis=0) == 1, and one
\* floor constraint per agent of the loop.
BuildConstraints(V) ==
  [lower |-> 0, upper |-> 1, column_sum |-> 1,
   floor_agents |-> FloorAgents(V.n_agents)]

\* The row index dropped, valuation_matrix[0]: every agent's utility is measured
\* with the first agent's valuations.
agent_utility_FirstRow(A, V, i) ==
  SumTo([j \in 1..V.m_resources |-> A[i][j] * V.val[1][j]], V.m_resources)

\* The valuations left out, cp.sum(allocations[i]): the utility is the share.
agent_utility_ShareOnly(A, V, i) ==
  SumTo([j \in 1..V.m_resources |-> A[i][j]], V.m_resources)

\* A sign slip: the utility is the negated value.
agent_utility_Negated(A, V, i) ==
  SumTo([j \in 1..V.m_resources |-> 0 - A[i][j] * V.val[i][j]], V.m_resources)

\* cp.sum(cp.multiply(allocations[i], valuation_matrix[i])), scaled by D.
agent_utility(A, V, i) ==
  SumTo([j \in 1..V.m_resources |-> A[i][j] * V.val[i][j]], V.m_resources)

\* Strict bounds, allocations > 0 and allocations < 1.
ColumnOK_StrictBounds(c, C, n, D) ==
  /\ \A i \in 1..n : c[i] > C.lower * D
  /\ \A i \in 1..n : c[i] < C.upper * D
  /\ SumTo(c, n) = C.column_sum * D

\* The two bound constraints left out: only the column sums are constrained.
ColumnOK_NoBounds(c, C, n, D) == SumTo(c, n) = C.column_sum * D

\* One column of the allocation (the shares of one resource, agent by agent)
\* against the three matrix constraints.
ColumnOK(c, C, n, D) ==
  /\ \A i \in 1..n : c[i] >= C.lower * D
  /\ \A i \in 1..n : c[i] <= C.upper * D
  /\ SumTo(c, n) = C.column_sum * D

\* The solver's search box for one column exceeds [0,1] by one unit each way.
\* (The outer set makes TLC enumerate the box once.)
FeasibleColumns(C, n, D) ==
  {col : col \in {c \in [1..n -> (0 - 1)..(D + 1)] : ColumnOK(c, C, n, D)}}

\* Every allocation matrix that satisfies the matrix constraints.
FeasibleAllocations(C, V, D) ==
  {[i \in 1..V.n_agents |-> [j \in 1..V.m_resources |-> cols[j][i]]] :
     cols \in [1..V.m_resources -> FeasibleColumns(C, V.n_agents, D)]}

\* The largest min_utility the floor constraints allow with allocation A.
FloorBound(A, C, V) == Min({agent_utility(A, V, i) : i \in C.floor_agents})

\* The feasible allocations, each with the largest min_utility it allows.  With
\* no floor constraint at all min_utility is not bounded and the entry is unused.
FloorBounds(C, V, D) ==
  {[A |-> A, bound |-> IF C.floor_agents = {} THEN 0 ELSE FloorBound(A, C, V)] :
     A \in FeasibleAllocations(C, V, D)}

\* cp.Maximize(min_utility): the optimal value over the feasible allocations.
OptimalValue(fb) == Max({p.bound : p \in fb})

(***************************************************************************)
(* Lines 77-88: the interpretation of the solver's status.                 *)
(***************************************************************************)
SuccessStatuses == {"optimal", "optimal_inaccurate"}
FailureStatuses == {"infeasible", "unbounded", "solver_error"}

\* optimal_inaccurate left out of the list.
IsSuccess_OnlyOptimal(s) == s = "optimal"

\* problem.status not in ["optimal", "optimal_inaccurate"] is false.
IsSuccess(s) == s \in SuccessStatuses

\* The exception of line 78, whatever the status was.
ErrorRaised(s) == "ValueError: Fair division impossible with given valuations"

\* cp.Variable(shape) refuses a dimension that is not positive.
InvalidDimensions == "ValueError: Invalid dimensions"

NoResult == [status |-> "none", min_utility |-> 0, allocations |-> <<>>,
             utilities |-> <<>>]

\* np.array([np.sum(allocations.value[i] * valuation_matrix[i]) for i in range(n_agents)])
utilities(A, V) ==
  [i \in 1..V.n_agents |->
     SumTo([j \in 1..V.m_resources |-> A[i][j] * V.val[i][j]], V.m_resources)]

NoPrev == [called |-> FALSE, agent |-> 0, status |-> "none", min_utility |-> 0,
           utility |-> 0]

(***************************************************************************)
(* The call, step by step.                                                 *)
(***************************************************************************)
Init ==
  /\ valuation_matrix \in InputMatrices
  /\ pc = "called"
  /\ constraints = NoConstraints
  /\ solver_mode = "none"
  /\ status = "none"
  /\ allocations = <<>>
  /\ min_utility = 0
  /\ result = NoResult
  /\ error = "none"
  /\ prev = NoPrev

\* Lines 60-74.  cp.Variable((n_agents, m_resources)) raises on an empty shape;
\* otherwise the constraints and the objective are put together.
Build ==
  /\ pc = "called"
  /\ IF valuation_matrix.n_agents = 0 \/ valuation_matrix.m_resources = 0
       THEN /\ pc' = "raised"
            /\ error' = InvalidDimensions
            /\ UNCHANGED constraints
       ELSE /\ pc' = "built"
            /\ constraints' = BuildConstraints(valuation_matrix)
            /\ UNCHANGED error
  /\ UNCHANGED <<valuation_matrix, solver_mode, status, allocations, min_utility,
                 result, prev>>

\* Line 75, the solver working as its contract says.  It reports the status
\* the program deserves.  When the program has an optimum, the solver either
\* converges (optimal: one of the optimal points) or stops short of its
\* precision (optimal_inaccurate: a feasible point whose objective is within
\* Tol of the optimum).
Solve ==
  /\ pc = "built"
  /\ pc' = "solved"
  /\ \E fb \in {FloorBounds(constraints, valuation_matrix,
                            Resolution(valuation_matrix))} :
       IF fb = {}
         THEN /\ status' = "infeasible"
              /\ solver_mode' = "exact"
              /\ UNCHANGED <<allocations, min_utility>>
         ELSE IF constraints.floor_agents = {}
           THEN /\ status' = "unbounded"
                /\ solver_mode' = "exact"
                /\ UNCHANGED <<allocations, min_utility>>
           ELSE \E best \in {OptimalValue(fb)} :
                  \E p \in fb :
                    \/ /\ p.bound = best
                       /\ status' = "optimal"
                       /\ solver_mode' = "exact"
                       /\ allocations' = p.A
                       /\ min_utility' = best
                    \/ /\ p.bound >= best - Tol
                       /\ \E t \in (best - Tol)..p.bound :
                            /\ status' = "optimal_inaccurate"
                            /\ solver_mode' = "inexact"
                            /\ allocations' = p.A
                            /\ min_utility' = t
  /\ UNCHANGED <<valuation_matrix, constraints, result, error, prev>>

\* Line 75, the solver failing on the program (a numerical breakdown, a limit
\* reached): a status that is not a success, whatever the program deserves.
SolveAnomaly ==
  /\ pc = "built"
  /\ pc' = "solved"
  /\ solver_mode' = "anomaly"
  /\ status' \in FailureStatuses
  /\ UNCHANGED <<valuation_matrix, constraints, allocations, min_utility, result,
                 error, prev>>

\* Lines 77-78.
Raise ==
  /\ pc = "solved"
  /\ ~IsSuccess(status)
  /\ pc' = "raised"
  /\ error' = ErrorRaised(status)
  /\ UNCHANGED <<valuation_matrix, constraints, solver_mode, status, allocations,
                 min_utility, result, prev>>

\* Lines 80-88.
Return ==
  /\ pc = "solved"
  /\ IsSuccess(status)
  /\ pc' = "returned"
  /\ result' = [status |-> status,
                min_utility |-> min_utility,
                allocations |-> allocations,
                utilities |-> utilities(allocations, valuation_matrix)]
  /\ UNCHANGED <<valuation_matrix, constraints, solver_mode, status, allocations,
                 min_utility, error, prev>>

Next == Build \/ Solve \/ SolveAnomaly \/ Raise \/ Return

Spec == Init /\ [][Next]_vars

(***************************************************************************)
(* Two calls in a row, as the doctests make them: nothing of a call is     *)
(* kept by the function, so the caller notes what the first call returned  *)
(* and calls again with one valuation raised.                              *)
(***************************************************************************)
\* V with agent i's valuation of resource j raised to v.
Raised(V, i, j, v) == [V EXCEPT !.val[i][j] = v]

CallAgain ==
  /\ pc = "returned"
  /\ ~prev.called
  /\ \E i \in 1..valuation_matrix.n_agents :
       \E j \in 1..valuation_matrix.m_resources :
         \E v \in (valuation_matrix.val[i][j] + 1)..MaxVal :
           /\ prev' = [called |-> TRUE, agent |-> i,
                       status |-> result.status,
                       min_utility |-> result.min_utility,
                       utility |-> result.utilities[i]]
           /\ valuation_matrix' = Raised(valuation_matrix, i, j, v)
  /\ pc' = "called"
  /\ constraints' = NoConstraints
  /\ solver_mode' = "none"
  /\ status' = "none"
  /\ allocations' = <<>>
  /\ min_utility' = 0
  /\ result' = NoResult
  /\ error' = "none"

PairInit ==
  /\ Init
  /\ valuation_matrix \in EnumeratedMatrices
  /\ ValidMatrix(valuation_matrix)

PairNext == Next \/ CallAgain

SpecPair == PairInit /\ [][PairNext]_vars

(***************************************************************************)
(* The properties.  D, the share of a column and the utility of an agent   *)
(* are written out again here, from the returned result alone.             *)
(***************************************************************************)
Done == pc \in {"returned", "raised"}

D == Resolution(valuation_matrix)

n_agents == valuation_matrix.n_agents
m_resources == valuation_matrix.m_resources

\* The total handed out of resource j in the returned allocation.
ColumnTotal(j) == SumTo([i \in 1..n_agents |-> result.allocations[i][j]], n_agents)

\* The total share of agent i in the returned allocation.
RowTotal(i) == SumTo(result.allocations[i], m_resources)

\* Agent i's value for the allocation X, from the original valuations.
ValueOf(X, i) ==
  SumTo([j \in 1..m_resources |-> X[i][j] * valuation_matrix.val[i][j]], m_resources)

\* C1: for a well-formed input (at least one agent and one resource, no
\* negative entry) the program is feasible and bounded: a solver that keeps to
\* its contract reports optimal or optimal_inaccurate, the call returns a
\* result with that status and the ValueError is never raised.
C1_ValidInputSucceeds ==
  (ValidMatrix(valuation_matrix) /\ solver_mode # "anomaly") =>
    /\ pc # "raised"
    /\ pc = "solved" => status \in {"optimal", "optimal_inaccurate"}
    /\ pc = "returned" =>
         /\ result.status \in {"optimal", "optimal_inaccurate"}
         /\ error = "none"

C1_Witness ==
  /\ ValidMatrix(valuation_matrix)
  /\ n_agents = 2 /\ m_resources = 2
  /\ solver_mode = "exact"
  /\ pc = "returned"

\* C2: in every returned result each entry of the allocation lies in [0,1] and
\* the shares of every resource add up to 1, also for a resource that no agent
\* values.
C2_AllocationValid ==
  pc = "returned" =>
    /\ \A i \in 1..n_agents : \A j \in 1..m_resources :
         result.allocations[i][j] >= 0 /\ result.allocations[i][j] <= D
    /\ \A j \in 1..m_resources : ColumnTotal(j) = D

C2_Witness ==
  /\ pc = "returned"
  /\ n_agents = 2
  /\ \E j \in 1..m_resources :
       /\ \A i \in 1..n_agents : valuation_matrix.val[i][j] = 0
       /\ ColumnTotal(j) = D
       /\ \E i \in 1..n_agents : result.allocations[i][j] \notin {0, D}

\* C3: in every returned result utilities[i] is agent i's value for the
\* returned allocation, no agent's utility is below min_utility, min_utility is
\* the smallest utility (exactly when the status is optimal, within Tol when it
\* is optimal_inaccurate), and an agent who values nothing brings it to 0.
C3_FloorIsMinUtility ==
  pc = "returned" =>
    /\ DOMAIN result.utilities = 1..n_agents
    /\ \A i \in 1..n_agents : result.utilities[i] = ValueOf(result.allocations, i)
    /\ \A i \in 1..n_agents : result.utilities[i] >= result.min_utility
    /\ \E i \in 1..n_agents :
         /\ result.utilities[i] - result.min_utility <= Tol
         /\ result.status = "optimal" => result.utilities[i] = result.min_utility
    /\ (\E i \in 1..n_agents : \A j \in 1..m_resources : valuation_matrix.val[i][j] = 0)
         => /\ result.min_utility <= 0
            /\ result.min_utility >= 0 - Tol
            /\ result.status = "optimal" => result.min_utility = 0

C3_Witness ==
  /\ pc = "returned"
  /\ result.status = "optimal"
  /\ n_agents = 2
  /\ result.min_utility > 0
  /\ result.utilities[1] > result.utilities[2]
  /\ result.utilities[2] = result.min_utility

\* The degenerate optimum is reached too: one agent values nothing, the other
\* something, and min_utility is 0.
C3_WitnessZeroAgent ==
  /\ pc = "returned"
  /\ n_agents = 2
  /\ \A j \in 1..m_resources : valuation_matrix.val[2][j] = 0
  /\ \E j \in 1..m_resources : valuation_matrix.val[1][j] > 0
  /\ result.min_utility = 0

\* Every way to split one resource among the agents: shares in [0,1] that add
\* up to 1.
AllSplits ==
  {sp : sp \in {c \in [1..n_agents -> 0..D] : SumTo(c, n_agents) = D}}

\* The smallest utility of any agent when resource j is split as split[j].
SmallestUtility(split) ==
  Min({SumTo([j \in 1..m_resources |-> split[j][i] * valuation_matrix.val[i][j]],
             m_resources) : i \in 1..n_agents})

\* C4: the returned min_utility is the max-min optimum: for a well-formed input
\* no allocation with entries in [0,1] and columns summing to 1 gives every
\* agent more than the returned min_utility (more than min_utility + Tol when
\* the status is optimal_inaccurate); the first doctest matrix yields 185/3 and
\* the second 900/19.
C4_MaxMinOptimum ==
  (pc = "returned" /\ ValidMatrix(valuation_matrix)) =>
    /\ \A split \in [1..m_resources -> AllSplits] :
         SmallestUtility(split) <=
           result.min_utility + (IF result.status = "optimal" THEN 0 ELSE Tol)
    /\ (valuation_matrix = first_division /\ result.status = "optimal")
         => 3 * result.min_utility = 185 * D
    /\ (valuation_matrix = jewelry /\ result.status = "optimal")
         => 19 * result.min_utility = 900 * D

C4_Witness ==
  /\ pc = "returned"
  /\ valuation_matrix = jewelry
  /\ result.status = "optimal"
  /\ 19 * result.min_utility = 900 * D

\* The first doctest's allocation, [[0.53, 1, 0], [0.47, 0, 1]], is 8/15 and 7/15
\* of the wood.
C4_WitnessFirstDivision ==
  /\ pc = "returned"
  /\ valuation_matrix = first_division
  /\ result.status = "optimal"
  /\ result.allocations = << <<8, 15, 0>>, <<7, 0, 15>> >>

\* What C5 says of a single state: a result is returned exactly on the two
\* success statuses and carries the solver's status; every other status ends in
\* an error with nothing returned.
C5_Outcome ==
  /\ pc = "returned" =>
       /\ status \in {"optimal", "optimal_inaccurate"}
       /\ result.status = status
       /\ result.allocations = allocations
       /\ result.min_utility = min_utility
       /\ error = "none"
  /\ pc = "raised" =>
       /\ status \notin {"optimal", "optimal_inaccurate"}
       /\ result = NoResult
       /\ error # "none"
  /\ pc \in {"called", "built", "solved"} => (result = NoResult /\ error = "none")
  /\ (Done /\ status \in {"optimal", "optimal_inaccurate"}) => pc = "returned"

\* C5: a call returns a result if and only if the solver's status is optimal or
\* optimal_inaccurate, the result carries that very status, any other status
\* ends in an error without an allocation, and the outcome is final: nothing
\* happens after the call has returned or raised.
C5_ResultIffSuccessStatus == [](C5_Outcome) /\ [][~Done]_vars

C5_Witness ==
  /\ pc = "returned"
  /\ result.status = "optimal_inaccurate"
  /\ result.allocations # <<>>

\* The failing side of C5 is reached as well.
C5_WitnessFailure ==
  /\ pc = "raised"
  /\ status = "unbounded"

\* C6 as claimed: a malformed matrix (a negative entry, no agent or no
\* resource) is refused before anything of the program is built and before the
\* solver runs, and never yields a result.
C6_MalformedRejected ==
  ~ValidMatrix(valuation_matrix) =>
    /\ pc \in {"called", "raised"}
    /\ constraints = NoConstraints
    /\ status = "none"
    /\ result = NoResult

C10_FailureKindsDistinguishable ==
  (pc = "raised" /\ status \in FailureStatuses) =>
    \A other \in FailureStatuses \ {status} : ErrorRaised(other) # error

\* C7 as claimed: when one valuation of agent i is raised and nothing else
\* changes, agent i's utility in the second result is not below agent i's
\* utility in the first, whichever optimal allocation the solver returns.
C7_AgentUtilityMonotone ==
  (prev.called /\ pc = "returned" /\ prev.status = "optimal"
     /\ result.status = "optimal")
    => result.utilities[prev.agent] >= prev.utility

\* C7 as amended: when one valuation of agent i is raised and nothing else
\* changes, the min_utility of the second result is not below the min_utility
\* of the first (not by more than Tol when a status is optimal_inaccurate).
C7_MinUtilityMonotone ==
  (prev.called /\ pc = "returned") =>
    /\ result.min_utility >= prev.min_utility - Tol
    /\ (prev.status = "optimal" /\ result.status = "optimal")
         => result.min_utility >= prev.min_utility

C7_Witness ==
  /\ prev.called
  /\ pc = "returned"
  /\ prev.status = "optimal"
  /\ result.status = "optimal"
  /\ n_agents = 2
  /\ result.min_utility > prev.min_utility
  /\ prev.min_utility > 0

====
